---- MODULE Spec2Model ----
(***************************************************************************)
(* resolveVariables and promptForMissingTool of src/lib/tools.ts as state  *)
(* machines.                                                               *)
(*                                                                         *)
(* A JavaScript string is a sequence of one-character strings.  One call   *)
(* of resolveVariables is followed from its entry through every iteration  *)
(* of the while loop to its return (or to the exception it raises).  The   *)
(* process environment, the configuration, the workspace folders, the      *)
(* platform and the home directory are read-only while calls run; they     *)
(* are chosen in Init.  promptForMissingTool is followed from the message  *)
(* it shows through the user's choice to the events of the installer it    *)
(* starts (PromptSpec).                                                    *)
(***************************************************************************)
EXTENDS Integers, Sequences, FiniteSets, TLC

VARIABLES
  input,                  \* parameter `input` of the running call
  inputDefined,           \* FALSE: the caller passed undefined
  additionalEnvironment,  \* parameter `additionalEnvironment` (the overlay)
  processEnv,             \* process.env
  config,                 \* vscode.workspace.getConfiguration()
  workspaceFolders,       \* vscode.workspace.workspaceFolders
  platform,               \* process.platform
  homedir,                \* os.homedir()
  pc,                     \* position of the call
  ret,                    \* local `ret`
  cycleCache,             \* local `cycleCache`
  passes,                 \* number of ret.replace(...) passes run in this call
  lastPass,               \* what the last pass did: its input and its substitutions
  expanded,               \* value of ret when the while loop was left
  error,                  \* the exception the call raised, if any
  calls,                  \* number of calls made so far
  prior,                  \* record of the previous call
  ranOn,                  \* the strings a pass has been run on in this call, in order
  prompt                  \* one call of promptForMissingTool

resolverVars == << input, inputDefined, additionalEnvironment, processEnv, config,
                   workspaceFolders, platform, homedir, pc, ret, cycleCache, passes,
                   lastPass, expanded, error, calls, prior, ranOn >>

vars == << resolverVars, prompt >>

providers == << additionalEnvironment, processEnv, config, workspaceFolders,
                platform, homedir >>

-----------------------------------------------------------------------------
(* Bounds *)

\* number of pieces an input is put together from
MaxPieces == 1
\* the working string is followed while it is at most this much longer than the input
MaxGrowth == 4
\* number of calls in one behaviour (the second call feeds the first result back)
MaxCalls == 2
\* number of chunks of output the installer process writes
MaxChunks == 2

-----------------------------------------------------------------------------
(* Strings *)

RECURSIVE Flatten(_)
Flatten(ss) == IF ss = <<>> THEN <<>> ELSE Head(ss) \o Flatten(Tail(ss))

UpperCase == << "A","B","C","D","E","F","G","H","I","J","K","L","M",
                "N","O","P","Q","R","S","T","U","V","W","X","Y","Z" >>
LowerCase == << "a","b","c","d","e","f","g","h","i","j","k","l","m",
                "n","o","p","q","r","s","t","u","v","w","x","y","z" >>

\* String.prototype.toLocaleLowerCase, one character
LowerChar(c) ==
  IF \E i \in 1..26 : UpperCase[i] = c
  THEN LowerCase[CHOOSE i \in 1..26 : UpperCase[i] = c]
  ELSE c

toLocaleLowerCase(s) == [i \in 1..Len(s) |-> LowerChar(s[i])]

\* Array.prototype.join
RECURSIVE join(_, _)
join(arr, sep) ==
  IF arr = <<>> THEN <<>>
  ELSE IF Len(arr) = 1 THEN arr[1]
  ELSE arr[1] \o sep \o join(Tail(arr), sep)

\* the kind tokens of the regular expression, in the order of its alternation
kEnv       == << "e","n","v" >>
kConfig    == << "c","o","n","f","i","g" >>
kWorkspace == << "w","o","r","k","s","p","a","c","e","F","o","l","d","e","r" >>
kFile      == << "f","i","l","e" >>
kFileDir   == << "f","i","l","e","D","i","r","n","a","m","e" >>
kFileBase  == << "f","i","l","e","B","a","s","e","n","a","m","e",
                 "N","o","E","x","t","e","n","s","i","o","n" >>

Kinds == << kEnv, kConfig, kWorkspace, kFile, kFileDir, kFileBase >>

\* characters the pattern character `.` does not match
LineTerminators == { "\n", "\r" }

-----------------------------------------------------------------------------
(* The regular expression                                                  *)
(* /\$\{((env|config|workspaceFolder|file|fileDirname|                     *)
(*        fileBasenameNoExtension)(\.|:))?(.*?)\}/g                        *)

\* the text t stands in s at position i
HasAt(s, i, t) ==
  /\ i >= 1
  /\ i + Len(t) - 1 <= Len(s)
  /\ \A k \in 1..Len(t) : s[i + k - 1] = t[k]

\* mutation: `.` also matches line terminators (the s flag)
CloseFrom_DotAll(s, p) ==
  LET js == { j \in p..Len(s) : s[j] = "}" /\ \A k \in p..(j - 1) : s[k] # "}" }
  IN IF js = {} THEN 0 ELSE CHOOSE j \in js : TRUE

\* mutation: the quantifier is greedy, `(.*)\}` stops at the last closing brace
CloseFrom_Greedy(s, p) ==
  LET js == { j \in p..Len(s) :
                /\ s[j] = "}"
                /\ \A k \in p..(j - 1) : s[k] \notin LineTerminators
                /\ \A k \in (j + 1)..Len(s) :
                     s[k] # "}" \/ \E l \in j..k : s[l] \in LineTerminators }
  IN IF js = {} THEN 0 ELSE CHOOSE j \in js : TRUE

\* `(.*?)\}` started at position p: the position of the closing brace the lazy
\* quantifier stops at, 0 when the rest of the pattern cannot match
CloseFrom(s, p) ==
  LET js == { j \in p..Len(s) :
                /\ s[j] = "}"
                /\ \A k \in p..(j - 1) : s[k] # "}" /\ s[k] \notin LineTerminators }
  IN IF js = {} THEN 0 ELSE CHOOSE j \in js : TRUE

NoMatch == [ok |-> FALSE, varType |-> <<>>, name |-> <<>>, last |-> 0]

\* the optional group `((kind)(\.|:))?` at a reference opening at position i:
\* the alternatives are tried in order, each followed by the rest of the pattern
RECURSIVE TryKinds(_, _, _)
TryKinds(s, i, n) ==
  IF n > Len(Kinds) THEN NoMatch
  ELSE LET k   == Kinds[n]
           sep == i + 2 + Len(k)
           c   == CloseFrom(s, sep + 1)
       IN IF /\ HasAt(s, i + 2, k)
             /\ sep <= Len(s)
             /\ s[sep] \in { ".", ":" }
             /\ c # 0
          THEN [ok |-> TRUE, varType |-> k,
                name |-> SubSeq(s, sep + 1, c - 1), last |-> c]
          ELSE TryKinds(s, i, n + 1)

\* one attempt of the whole pattern at position i; varType is the empty string
\* when the optional group took no part in the match (undefined in the code)
MatchAt(s, i) ==
  IF ~HasAt(s, i, << "$", "{" >>) THEN NoMatch
  ELSE LET g == TryKinds(s, i, 1)
       IN IF g.ok THEN g
          ELSE LET c == CloseFrom(s, i + 2)
               IN IF c = 0 THEN NoMatch
                  ELSE [ok |-> TRUE, varType |-> <<>>,
                        name |-> SubSeq(s, i + 2, c - 1), last |-> c]

-----------------------------------------------------------------------------
(* The replacement callback                                                *)

Undefined == [def |-> FALSE, v |-> <<>>]
Value(v)  == [def |-> TRUE, v |-> v]

\* helpers of lib/helper
isString(x)        == x.def /\ x.t = "string"
isArrayOfString(x) == x.def /\ x.t = "array"

envDelimiter == IF platform = "win32" THEN << ";" >> ELSE << ":" >>

\* additionalEnvironment[name]
OverlayGet(name) ==
  IF name \in DOMAIN additionalEnvironment.vars
  THEN [def |-> TRUE, t |-> additionalEnvironment.vars[name].t,
        v |-> additionalEnvironment.vars[name].v]
  ELSE [def |-> FALSE, t |-> "undefined", v |-> <<>>]

\* process.env[name]
ProcessEnvGet(name) ==
  IF name \in DOMAIN processEnv THEN Value(processEnv[name]) ELSE Undefined

\* mutation: a sequence is joined wherever the reference stands
EnvCase_JoinAnywhere(match, name) ==
  LET v == OverlayGet(name)
  IN IF additionalEnvironment.given /\ isString(v)
     THEN [threw |-> "", from |-> "overlayString", val |-> Value(v.v)]
     ELSE IF additionalEnvironment.given /\ isArrayOfString(v)
     THEN [threw |-> "", from |-> "overlayJoin", val |-> Value(join(v.v, envDelimiter))]
     ELSE [threw |-> "", from |-> "processEnv", val |-> ProcessEnvGet(name)]

\* mutation: process.env is asked first, the overlay only for names it lacks
EnvCase_AmbientFirst(match, name) ==
  LET v == OverlayGet(name)
  IN IF ProcessEnvGet(name).def
     THEN [threw |-> "", from |-> "processEnv", val |-> ProcessEnvGet(name)]
     ELSE IF additionalEnvironment.given /\ isString(v)
     THEN [threw |-> "", from |-> "overlayString", val |-> Value(v.v)]
     ELSE IF additionalEnvironment.given /\ input = match /\ isArrayOfString(v)
     THEN [threw |-> "", from |-> "overlayJoin", val |-> Value(join(v.v, envDelimiter))]
     ELSE [threw |-> "", from |-> "processEnv", val |-> Undefined]

\* case 'env'
EnvCase(match, name) ==
  LET v == OverlayGet(name)
      fromOverlay ==
        IF additionalEnvironment.given
        THEN IF isString(v) THEN [from |-> "overlayString", val |-> Value(v.v)]
             ELSE IF input = match /\ isArrayOfString(v)
                  THEN [from |-> "overlayJoin", val |-> Value(join(v.v, envDelimiter))]
                  ELSE [from |-> "none", val |-> Undefined]
        ELSE [from |-> "none", val |-> Undefined]
  IN IF fromOverlay.val.def
     THEN [threw |-> "", from |-> fromOverlay.from, val |-> fromOverlay.val]
     ELSE [threw |-> "", from |-> "processEnv", val |-> ProcessEnvGet(name)]

\* case 'config'
ConfigCase(name) ==
  [threw |-> "", from |-> "config",
   val |-> IF name \in DOMAIN config THEN Value(config[name]) ELSE Undefined]

\* case 'workspaceFolder'
WorkspaceFolderCase(name) ==
  IF name # <<>> /\ workspaceFolders.defined
  THEN LET list  == workspaceFolders.list
           found == { i \in 1..Len(list) :
                        toLocaleLowerCase(list[i].name) = toLocaleLowerCase(name) }
       IN IF found # {}
          THEN [threw |-> "", from |-> "folderByName",
                val |-> Value(list[CHOOSE i \in found : \A j \in found : i <= j].fsPath)]
          ELSE IF Len(list) > 0
               THEN [threw |-> "", from |-> "firstFolder", val |-> Value(list[1].fsPath)]
               \* workspaceFolders[0] is undefined: reading .uri of it throws
               ELSE [threw |-> "TypeError", from |-> "firstFolder", val |-> Undefined]
  ELSE [threw |-> "", from |-> "workspaceFolder", val |-> Undefined]

\* default: assert.fail('unknown varType matched')
DefaultCase ==
  [threw |-> "AssertionError", from |-> "default", val |-> Undefined]

\* the arrow function handed to ret.replace
Replacer(match, varType0, name) ==
  LET varType == IF varType0 = <<>> THEN kWorkspace ELSE varType0
      r == IF varType = kEnv THEN EnvCase(match, name)
           ELSE IF varType = kConfig THEN ConfigCase(name)
           ELSE IF varType = kWorkspace THEN WorkspaceFolderCase(name)
           ELSE DefaultCase
  IN [match |-> match, prefix |-> varType0, varType |-> varType, name |-> name,
      threw |-> r.threw, from |-> r.from, resolved |-> r.val.def,
      out |-> IF r.val.def THEN r.val.v ELSE match]

\* mutation: the scan goes on at the start of the value it has put in, so a
\* reference in a value is replaced in the same pass (eight times at most)
RECURSIVE ScanFrom_Rescan(_, _, _, _)
ScanFrom_Rescan(s, i, out, subs) ==
  IF i > Len(s) THEN [out |-> out, subs |-> subs, threw |-> ""]
  ELSE LET m == MatchAt(s, i)
       IN IF ~m.ok THEN ScanFrom_Rescan(s, i + 1, Append(out, s[i]), subs)
          ELSE LET r == Replacer(SubSeq(s, i, m.last), m.varType, m.name)
               IN IF r.threw # ""
                  THEN [out |-> out, subs |-> Append(subs, r), threw |-> r.threw]
                  ELSE IF r.resolved /\ Len(subs) < 8
                  THEN ScanFrom_Rescan(SubSeq(s, 1, i - 1) \o r.out
                                         \o SubSeq(s, m.last + 1, Len(s)),
                                       i, out, Append(subs, r))
                  ELSE ScanFrom_Rescan(s, m.last + 1, out \o r.out, Append(subs, r))

\* ret.replace(regexp(), callback) continued at position i of s: the matches
\* are found left to right and the text between them is copied
RECURSIVE ScanFrom(_, _, _, _)
ScanFrom(s, i, out, subs) ==
  IF i > Len(s) THEN [out |-> out, subs |-> subs, threw |-> ""]
  ELSE LET m == MatchAt(s, i)
       IN IF ~m.ok THEN ScanFrom(s, i + 1, Append(out, s[i]), subs)
          ELSE LET r == Replacer(SubSeq(s, i, m.last), m.varType, m.name)
               IN IF r.threw # ""
                  THEN [out |-> out, subs |-> Append(subs, r), threw |-> r.threw]
                  ELSE ScanFrom(s, m.last + 1, out \o r.out, Append(subs, r))

ReplacePass(s) == ScanFrom(s, 1, <<>>, <<>>)

\* mutation: the loop body runs once
LoopContinues_OnePass(r, cache) == cache = {}

\* mutation: the loop counts its passes and stops after the second
LoopContinues_TwoPasses(r, cache) == Cardinality(cache) < 2

\* the condition of the while loop
LoopContinues(r, cache) == r \notin cache

\* mutation: the pattern is /~/g, every '~' is replaced
RECURSIVE ResolveHome_EveryTilde(_)
ResolveHome_EveryTilde(s) ==
  IF s = <<>> THEN <<>>
  ELSE (IF Head(s) = "~" THEN homedir ELSE << Head(s) >>)
       \o ResolveHome_EveryTilde(Tail(s))

\* ret.replace(/^~/g, () => os.homedir())
ResolveHome(s) ==
  IF Len(s) > 0 /\ s[1] = "~" THEN homedir \o Tail(s) ELSE s

-----------------------------------------------------------------------------
(* Inputs and provider contents                                            *)

Open  == << "$", "{" >>
Close == << "}" >>
Bare(name)           == Open \o name \o Close
Ref(kind, sep, name) == Open \o kind \o << sep >> \o name \o Close

nA   == << "A" >>
nB   == << "B" >>
nP   == << "P" >>
nX   == << "X" >>
nK   == << "k" >>
sX   == << "x" >>
nFoo == << "f", "o", "o" >>
nBar == << "b", "a", "r" >>

\* the pieces an input is put together from
Pieces ==
  { sX, << "~" >>, Open, Close,
    Ref(kEnv, ":", nA), Ref(kEnv, ".", nP), Ref(kEnv, ":", nX),
    Ref(kConfig, ":", nK),
    Bare(nFoo), Ref(nFoo, ":", nBar), Bare(<< "a", "\n" >>),
    Bare(kFile), Bare(kFileDir), Bare(kFileBase),
    Ref(kFile, ":", sX), Ref(kFileDir, ".", sX),
    Bare(kWorkspace), Ref(kWorkspace, ":", nBar), Ref(kWorkspace, ":", <<>>),
    \* a reference inside the name of another, the text around a reference
    Ref(kEnv, ":", Ref(kEnv, ":", nA)),
    sX \o Ref(kEnv, ".", nP), sX \o Ref(kEnv, ":", nX),
    Ref(kEnv, ":", nA) \o << "~" >>, Ref(kEnv, ":", nA) \o Bare(nFoo),
    Open \o Bare(<< "a", "\n" >>) }

RECURSIVE PieceSeqs(_)
PieceSeqs(n) ==
  IF n = 0 THEN { <<>> }
  ELSE LET shorter == PieceSeqs(n - 1)
       IN shorter \cup { Append(q, p) : q \in shorter, p \in Pieces }

Inputs == { Flatten(q) : q \in PieceSeqs(MaxPieces) }

\* what a later call may be given in place of the result of the call before
LaterInputs == { Ref(kEnv, ":", nB) }

\* contents of process.env
ProcessEnvs ==
  { << >>,
    (nA :> << "~" >>) @@ (nP :> << "w" >>) @@ (nX :> << "v" >>),
    (nA :> Ref(kEnv, ":", nP)),
    (nA :> sX \o Ref(kEnv, ":", nA)),
    (nA :> Ref(kEnv, ":", nB)) @@ (nB :> Ref(kEnv, ":", nA)),
    (nA :> Ref(kEnv, ":", nB)) @@ (nB :> Ref(kEnv, ".", nP)) @@ (nP :> << "w" >>) }

\* the overlays a caller passes
Overlays ==
  { [given |-> FALSE, vars |-> << >>],
    [given |-> TRUE,
     vars |-> (nX :> [t |-> "string", v |-> << "5" >>]) @@
              (nP :> [t |-> "array", v |-> << << "a" >>, << "b" >> >>])] }

Configs == { << >>, (nK :> << "c" >>) }

Folder(name, path) == [name |-> name, fsPath |-> path]

WorkspaceFolderLists ==
  { [defined |-> FALSE, list |-> <<>>],
    [defined |-> TRUE,  list |-> <<>>],
    [defined |-> TRUE,  list |-> << Folder(nBar, << "/", "b" >>),
                                    Folder(<< "F", "o", "o" >>, << "/", "a" >>) >>] }

Platforms == { "win32", "linux" }

HomeDirs == { << "/", "h" >> }

-----------------------------------------------------------------------------
(* One call of resolveVariables                                            *)

NoPass == [ran |-> FALSE, before |-> <<>>, subs |-> <<>>]
NoPrior == [returned |-> FALSE, again |-> FALSE, result |-> <<>>, input |-> <<>>,
            cycled |-> FALSE, passes |-> 0]

\* promptForMissingTool has not been called
NoPrompt == [pc |-> "none"]

Init ==
  /\ input \in Inputs
  /\ inputDefined \in BOOLEAN
  /\ (~inputDefined => input = <<>>)
  /\ additionalEnvironment \in Overlays
  /\ processEnv \in ProcessEnvs
  /\ config \in Configs
  /\ workspaceFolders \in WorkspaceFolderLists
  /\ platform \in Platforms
  /\ homedir \in HomeDirs
  /\ pc = "entry"
  /\ ret = <<>>
  /\ cycleCache = {}
  /\ passes = 0
  /\ lastPass = NoPass
  /\ expanded = <<>>
  /\ error = ""
  /\ calls = 1
  /\ prior = NoPrior
  /\ ranOn = <<>>
  /\ prompt = NoPrompt

\* the function without its guard of line 127: every input enters the loop
Enter_NoEarlyReturn ==
  /\ pc = "entry"
  /\ pc' = "while"
  /\ ret' = input
  /\ cycleCache' = {}
  /\ UNCHANGED << input, inputDefined, providers, passes, lastPass, expanded,
                  error, calls, prior, ranOn, prompt >>

\* mutation: the seen-set is not created in the call, it is the one the call
\* before has filled
Enter_KeepsSeenSet ==
  /\ pc = "entry"
  /\ IF ~inputDefined \/ input = <<>>
     THEN /\ pc' = "returned"
          /\ ret' = <<>>
     ELSE /\ pc' = "while"
          /\ ret' = input
  /\ UNCHANGED << input, inputDefined, providers, cycleCache, passes, lastPass,
                  expanded, error, calls, prior, ranOn, prompt >>

\* lines 127-136: the early return for a missing input, else the locals
Enter ==
  /\ pc = "entry"
  /\ IF ~inputDefined \/ input = <<>>
     THEN /\ pc' = "returned"
          /\ ret' = <<>>
     ELSE /\ pc' = "while"
          /\ ret' = input
  /\ cycleCache' = {}
  /\ UNCHANGED << input, inputDefined, providers, passes, lastPass, expanded,
                  error, calls, prior, ranOn, prompt >>

\* mutation: the string is put into the seen-set after the pass, as rewritten
WhilePass_AddsRewritten ==
  /\ pc = "while"
  /\ LoopContinues(ret, cycleCache)
  /\ LET r == ReplacePass(ret)
     IN /\ Len(r.out) <= Len(input) + MaxGrowth
        /\ cycleCache' = cycleCache \cup { r.out }
        /\ passes' = passes + 1
        /\ ranOn' = Append(ranOn, ret)
        /\ lastPass' = [ran |-> TRUE, before |-> ret, subs |-> r.subs]
        /\ IF r.threw # ""
           THEN /\ pc' = "threw"
                /\ error' = r.threw
                /\ ret' = ret
           ELSE /\ pc' = "while"
                /\ error' = error
                /\ ret' = r.out
  /\ UNCHANGED << input, inputDefined, providers, expanded, calls, prior, prompt >>

\* lines 137-199: one iteration of the while loop
WhilePass ==
  /\ pc = "while"
  /\ LoopContinues(ret, cycleCache)
  /\ LET r == ReplacePass(ret)
     IN /\ Len(r.out) <= Len(input) + MaxGrowth
        /\ cycleCache' = cycleCache \cup { ret }
        /\ passes' = passes + 1
        /\ ranOn' = Append(ranOn, ret)
        /\ lastPass' = [ran |-> TRUE, before |-> ret, subs |-> r.subs]
        /\ IF r.threw # ""
           THEN /\ pc' = "threw"
                /\ error' = r.threw
                /\ ret' = ret
           ELSE /\ pc' = "while"
                /\ error' = error
                /\ ret' = r.out
  /\ UNCHANGED << input, inputDefined, providers, expanded, calls, prior, prompt >>

\* line 137: the loop condition fails
WhileExit ==
  /\ pc = "while"
  /\ ~LoopContinues(ret, cycleCache)
  /\ pc' = "home"
  /\ expanded' = ret
  /\ UNCHANGED << input, inputDefined, providers, ret, cycleCache, passes,
                  lastPass, error, calls, prior, ranOn, prompt >>

\* lines 201-205: the leading '~' and the return
HomePass ==
  /\ pc = "home"
  /\ ret' = ResolveHome(ret)
  /\ pc' = "returned"
  /\ UNCHANGED << input, inputDefined, providers, cycleCache, passes, lastPass,
                  expanded, error, calls, prior, ranOn, prompt >>

\* a caller resolves the string it got back once more, with the same overlay;
\* what the finished call left in its locals is still there when the next begins
ResolveAgain ==
  /\ pc = "returned"
  /\ calls < MaxCalls
  /\ prior' = [returned |-> TRUE, again |-> TRUE, result |-> ret, input |-> input,
               cycled |-> lastPass.ran /\ expanded \in cycleCache \ { lastPass.before },
               passes |-> passes]
  /\ input' = ret
  /\ inputDefined' = TRUE
  /\ calls' = calls + 1
  /\ pc' = "entry"
  /\ passes' = 0
  /\ lastPass' = NoPass
  /\ expanded' = <<>>
  /\ error' = ""
  /\ ranOn' = <<>>
  /\ UNCHANGED << providers, ret, cycleCache, prompt >>

\* a caller resolves another string after the call has returned, with the same
\* overlay
ResolveOther ==
  /\ pc = "returned"
  /\ calls < MaxCalls
  /\ \E later \in LaterInputs :
       /\ later # input
       /\ input' = later
  /\ prior' = [returned |-> TRUE, again |-> FALSE, result |-> ret, input |-> input,
               cycled |-> lastPass.ran /\ expanded \in cycleCache \ { lastPass.before },
               passes |-> passes]
  /\ inputDefined' = TRUE
  /\ calls' = calls + 1
  /\ pc' = "entry"
  /\ passes' = 0
  /\ lastPass' = NoPass
  /\ expanded' = <<>>
  /\ error' = ""
  /\ ranOn' = <<>>
  /\ UNCHANGED << providers, ret, cycleCache, prompt >>

Next == Enter \/ WhilePass \/ WhileExit \/ HomePass \/ ResolveAgain \/ ResolveOther

Spec == Init /\ [][Next]_vars

-----------------------------------------------------------------------------
(* promptForMissingTool and installPythonTool (lines 56-114)               *)
(*                                                                         *)
(* prompt.pc follows one call: "called", "shown" (the message is up and    *)
(* the callback is registered), "selected" (the promise has its value),    *)
(* then what the callback left: "done", "threw", or "installing" with the  *)
(* pip process running, which ends in "exited" or "errored".  The counters *)
(* count what the call has done to its collaborators.                      *)

ToolTypes == { "Python", "VSExt", "Other" }
Options   == { "Install", "Don't Show Again", "Later" }
\* the prompt was dismissed: the promise resolves to undefined
Dismissed == "undefined"

\* a call of promptForMissingTool(tool, msg, toolType, opts, logger, action);
\* logger and action are optional parameters
PromptCalls ==
  { [pc |-> "called", toolType |-> t, opts |-> o, loggerGiven |-> l,
     actionGiven |-> a, selected |-> Dismissed, shown |-> 0,
     pipSpawned |-> 0, extensionOpened |-> 0, extensionInstalls |-> 0,
     infoLogged |-> 0, errorLogged |-> 0, errorShown |-> 0, actionCalls |-> 0,
     chunks |-> 0, threw |-> 0] :
    t \in ToolTypes, o \in SUBSET Options, l \in BOOLEAN, a \in BOOLEAN }

\* logger.logInfo(...) and logger.logError(...): a TypeError when there is no
\* logger, and the statements after it are not reached
LogInfo(p)  == IF p.loggerGiven THEN [p EXCEPT !.infoLogged = @ + 1]
               ELSE [p EXCEPT !.threw = @ + 1]
LogError(p) == IF p.loggerGiven THEN [p EXCEPT !.errorLogged = @ + 1]
               ELSE [p EXCEPT !.threw = @ + 1]

\* lines 97-114: pip is spawned and the three handlers are registered
installPythonTool(p) == [p EXCEPT !.pipSpawned = @ + 1, !.pc = "installing"]

\* lines 73-76: the two editor commands between the two log lines
InstallExtension(p) ==
  IF ~p.loggerGiven THEN [p EXCEPT !.threw = @ + 1, !.pc = "threw"]
  ELSE [p EXCEPT !.infoLogged = @ + 2, !.extensionOpened = @ + 1,
                 !.extensionInstalls = @ + 1, !.pc = "done"]

\* lines 79-81: the failure is logged, then shown
ReportFailure(p) ==
  IF ~p.loggerGiven THEN [p EXCEPT !.threw = @ + 1, !.pc = "threw"]
  ELSE [p EXCEPT !.errorLogged = @ + 1, !.errorShown = @ + 1, !.pc = "done"]

\* line 85: action()
CallAction(p) ==
  IF ~p.actionGiven THEN [p EXCEPT !.threw = @ + 1, !.pc = "threw"]
  ELSE [p EXCEPT !.actionCalls = @ + 1, !.pc = "done"]

\* lines 66-86: the callback given to then(), run with the selection
ThenCallback(p) ==
  IF p.selected = "Install"
  THEN CASE p.toolType = "Python" -> installPythonTool(p)
         [] p.toolType = "VSExt"  -> InstallExtension(p)
         [] OTHER                 -> ReportFailure(p)
  ELSE IF p.selected = "Don't Show Again" THEN CallAction(p)
  ELSE [p EXCEPT !.pc = "done"]

PromptInit ==
  /\ prompt \in PromptCalls
  /\ input = <<>> /\ inputDefined = FALSE
  /\ additionalEnvironment = [given |-> FALSE, vars |-> << >>]
  /\ processEnv = << >> /\ config = << >>
  /\ workspaceFolders = [defined |-> FALSE, list |-> <<>>]
  /\ platform = "linux" /\ homedir = << "/", "h" >>
  /\ pc = "entry" /\ ret = <<>> /\ cycleCache = {} /\ passes = 0
  /\ lastPass = NoPass /\ expanded = <<>> /\ error = ""
  /\ calls = 1 /\ prior = NoPrior /\ ranOn = <<>>

\* line 65: the message is shown with the options and then() is given the callback
promptForMissingTool ==
  /\ prompt.pc = "called"
  /\ prompt' = [prompt EXCEPT !.pc = "shown", !.shown = @ + 1]
  /\ UNCHANGED resolverVars

\* the user picks one of the options shown or dismisses the message
UserSelects ==
  /\ prompt.pc = "shown"
  /\ \E sel \in prompt.opts \cup { Dismissed } :
       prompt' = [prompt EXCEPT !.pc = "selected", !.selected = sel]
  /\ UNCHANGED resolverVars

\* the promise is fulfilled and the callback runs
ThenSelected ==
  /\ prompt.pc = "selected"
  /\ prompt' = ThenCallback(prompt)
  /\ UNCHANGED resolverVars

\* lines 99-101: pip writes to its standard output
OnStdoutData ==
  /\ prompt.pc = "installing"
  /\ prompt.chunks < MaxChunks
  /\ prompt' = LogInfo([prompt EXCEPT !.chunks = @ + 1])
  /\ UNCHANGED resolverVars

\* lines 102-110: pip exits with a code
OnExit ==
  /\ prompt.pc \in { "installing", "errored" }
  /\ \E code \in { 0, 1 } :
       prompt' = IF code # 0 THEN LogError([prompt EXCEPT !.pc = "exited"])
                 ELSE LogInfo([prompt EXCEPT !.pc = "exited"])
  /\ UNCHANGED resolverVars

\* lines 111-113: pip could not be spawned or could not be killed
OnError ==
  /\ prompt.pc = "installing"
  /\ prompt' = LogError([prompt EXCEPT !.pc = "errored"])
  /\ UNCHANGED resolverVars

PromptNext ==
  promptForMissingTool \/ UserSelects \/ ThenSelected \/ OnStdoutData \/ OnExit \/ OnError

PromptSpec == PromptInit /\ [][PromptNext]_vars

-----------------------------------------------------------------------------
(* Notions the properties are stated in                                    *)

\* the substitutions of the last pass, as a set
LastSubs == { lastPass.subs[i] : i \in 1..Len(lastPass.subs) }

\* t occurs in s
Occurs(t, s) == \E i \in 1..(Len(s) - Len(t) + 1) : SubSeq(s, i, i + Len(t) - 1) = t

\* the first call of the behaviour, made with a defined, non-empty input
FirstCall == calls = 1 /\ inputDefined /\ input # <<>>

-----------------------------------------------------------------------------
(* C1 *)

\* C1 (as claimed): the loop always ends; a substitution that brings back the
\* very reference it replaced is followed by at most one more pass, and that
\* pass changes nothing.
C1_ReintroductionCostsOneNoOpPass ==
  ( /\ pc = "while"
    /\ lastPass.ran
    /\ \E r \in LastSubs : r.resolved /\ Occurs(r.match, r.out) )
  => ( ~LoopContinues(ret, cycleCache) \/ ReplacePass(ret).out = ret )

-----------------------------------------------------------------------------
(* C2 *)

\* C2 (as claimed): the dispatch on varType never reaches its default branch,
\* so no call ends in the assertion failure 'unknown varType matched'.
C2_AssertFailUnreachable == ~(pc = "threw" /\ error = "AssertionError")

-----------------------------------------------------------------------------
(* C3 *)

\* C3 (as claimed): for the inputs ${file}, ${fileDirname} and
\* ${fileBasenameNoExtension} the call returns its input unchanged, whatever
\* the providers hold.
C3_BareFileKindsInert ==
  ( FirstCall /\ input \in { Bare(kFile), Bare(kFileDir), Bare(kFileBase) }
              /\ pc = "returned" )
  => ret = input

-----------------------------------------------------------------------------
(* C4 *)

\* the string is exactly one env reference whose name the overlay maps to a
\* sequence of strings
IsWholeSequenceReference(s) ==
  \E sep \in { ".", ":" } :
    \E n \in DOMAIN additionalEnvironment.vars :
      /\ additionalEnvironment.given
      /\ additionalEnvironment.vars[n].t = "array"
      /\ s = Ref(kEnv, sep, n)

\* the second call has returned, and the first call's loop ended on a pass
\* that changed nothing rather than on a return to an older string
SecondOfConverged ==
  calls = 2 /\ pc = "returned" /\ prior.returned /\ prior.again /\ ~prior.cycled

\* C4 (as claimed): resolving the output of a converged call again, with the
\* same overlay and providers, returns that output.
C4_Idempotent == SecondOfConverged => ret = prior.result

\* C4 (amended): the same, unless the output is exactly one env reference whose
\* name the overlay maps to a sequence of strings.
C4_IdempotentUnlessSequenceReference ==
  ( SecondOfConverged /\ ~IsWholeSequenceReference(prior.result) )
  => ret = prior.result

\* a converged first call that took a substituting pass, resolved again
C4_Witness ==
  /\ SecondOfConverged
  /\ prior.passes >= 2
  /\ prior.result # prior.input
  /\ ret = prior.result

-----------------------------------------------------------------------------
(* C5 *)

\* what the claim says an unqualified reference with this raw text and name
\* turns into
C5_Expected(match, name) ==
  LET list == workspaceFolders.list
      same == { i \in 1..Len(list) :
                  toLocaleLowerCase(list[i].name) = toLocaleLowerCase(name) }
  IN IF ~workspaceFolders.defined \/ list = <<>> THEN match
     ELSE IF same # {} THEN list[CHOOSE i \in same : \A j \in same : i <= j].fsPath
     ELSE list[1].fsPath

\* C5 (as claimed): a reference without kind prefix and with a non-empty name
\* becomes the path of the root of that name (letter case ignored), else the
\* path of the first root, and stays as it is when there are no roots (absent
\* or empty list); the call does not fail.
C5_UnqualifiedIsWorkspaceFolder ==
  \A r \in LastSubs :
    ( r.prefix = <<>> /\ r.name # <<>> )
    => ( r.threw = "" /\ r.out = C5_Expected(r.match, r.name) )

-----------------------------------------------------------------------------
(* C6 *)

\* the overlay maps this name to a sequence of strings
OverlaySequence(name) ==
  /\ additionalEnvironment.given
  /\ name \in DOMAIN additionalEnvironment.vars
  /\ additionalEnvironment.vars[name].t = "array"

\* the overlay maps this name to a plain string
OverlayString(name) ==
  /\ additionalEnvironment.given
  /\ name \in DOMAIN additionalEnvironment.vars
  /\ additionalEnvironment.vars[name].t = "string"

PlatformDelimiter == IF platform = "win32" THEN << ";" >> ELSE << ":" >>

\* the value of the process environment for the name, else the raw text
AmbientOrRaw(r) == IF r.name \in DOMAIN processEnv THEN processEnv[r.name] ELSE r.match

\* C6: in every pass an env reference whose name the overlay maps to a sequence
\* becomes the sequence joined with the platform delimiter exactly when its raw
\* text is the whole original input; otherwise it becomes the value of the
\* process environment or stays as it is.  So ${env.P} alone returns the joined
\* sequence and x${env.P} does not.
C6_SequenceJoinedOnlyForWholeInput ==
  /\ \A r \in LastSubs :
       ( r.varType = kEnv /\ OverlaySequence(r.name) )
       => r.out = IF r.match = input
                  THEN join(additionalEnvironment.vars[r.name].v, PlatformDelimiter)
                  ELSE AmbientOrRaw(r)
  /\ ( FirstCall /\ pc = "returned" /\ OverlaySequence(nP) )
     => /\ input = Ref(kEnv, ".", nP)
           => ret = << "a" >> \o PlatformDelimiter \o << "b" >>
        /\ input = sX \o Ref(kEnv, ".", nP)
           => ret = sX \o (IF nP \in DOMAIN processEnv THEN processEnv[nP]
                           ELSE Ref(kEnv, ".", nP))

\* the whole input is a reference to a sequence and came back joined
C6_Witness ==
  /\ FirstCall /\ pc = "returned"
  /\ OverlaySequence(nP)
  /\ input = Ref(kEnv, ".", nP)
  /\ platform = "win32"
  /\ ret = << "a", ";", "b" >>

-----------------------------------------------------------------------------
(* C7 *)

\* C7: an env reference whose name the overlay maps to a plain string becomes
\* that string, whatever the process environment holds and wherever the
\* reference stands; the process environment supplies a value only when no
\* overlay was given, the overlay lacks the name, or it holds a sequence for a
\* reference that is not the whole input.
C7_OverlayStringWins ==
  /\ \A r \in LastSubs :
       /\ ( r.varType = kEnv /\ OverlayString(r.name) )
          => r.out = additionalEnvironment.vars[r.name].v
       /\ ( r.varType = kEnv /\ r.from = "processEnv" )
          => \/ ~additionalEnvironment.given
             \/ r.name \notin DOMAIN additionalEnvironment.vars
             \/ ( OverlaySequence(r.name) /\ r.match # input )
  /\ ( FirstCall /\ pc = "returned" /\ OverlayString(nX) )
     => /\ input = Ref(kEnv, ":", nX) => ret = << "5" >>
        /\ input = sX \o Ref(kEnv, ":", nX) => ret = << "x", "5" >>
        /\ input = Ref(kEnv, ":", nX) \o sX => ret = << "5", "x" >>

\* an embedded reference took the overlay string although the process
\* environment defines the name
C7_Witness ==
  /\ FirstCall /\ pc = "returned"
  /\ OverlayString(nX)
  /\ nX \in DOMAIN processEnv
  /\ input = sX \o Ref(kEnv, ":", nX)
  /\ ret = << "x", "5" >>

-----------------------------------------------------------------------------
(* C8 *)

\* C8 (as claimed): in every pass a reference of kind env, config or
\* workspaceFolder whose lookup gives no value is put out as its raw text, and
\* the pass completes.
C8_UnresolvedKeepsRawText ==
  \A r \in LastSubs :
    ( r.varType \in { kEnv, kConfig, kWorkspace } /\ ~r.resolved )
    => ( r.threw = "" /\ r.out = r.match )

-----------------------------------------------------------------------------
(* C9 *)

\* the string holds '${' and, later and before any line terminator, '}'
HasReference(s) ==
  \E i \in 1..Len(s) : \E j \in (i + 2)..Len(s) :
    /\ s[i] = "$" /\ s[i + 1] = "{" /\ s[j] = "}"
    /\ \A k \in (i + 2)..(j - 1) : s[k] \notin LineTerminators

\* the input with a leading '~' replaced by the home directory
InputWithHome ==
  IF input[1] = "~" THEN homedir \o SubSeq(input, 2, Len(input)) ELSE input

\* the call leaves the text of the input as it is
PassedThrough ==
  /\ pc # "threw"
  /\ pc = "while" => ret = input
  /\ pc = "home" => expanded = input
  /\ pc = "returned" => ( expanded = input /\ ret = InputWithHome )

\* C9 (as claimed): an input with unbalanced braces, and the input ${foo:bar}
\* whose kind token is not one of the six, match nothing and are passed
\* through, whatever the providers hold.  (Stated for workspace folder lists
\* other than the empty one, where the failure of C5 plays no part.)
C9_MalformedPassesThrough ==
  ( /\ FirstCall
    /\ ( ~HasReference(input) \/ input = Ref(nFoo, ":", nBar) )
    /\ ~( workspaceFolders.defined /\ workspaceFolders.list = <<>> ) )
  => PassedThrough

\* C9 (amended): an input without '${' followed on the same line by '}' matches
\* nothing and is passed through, whatever the providers hold; ${foo:bar} does
\* match, as a reference without kind prefix whose name is foo:bar.
C9_UnbalancedPassesThrough ==
  /\ ( FirstCall /\ ~HasReference(input) )
     => ( PassedThrough /\ lastPass.subs = <<>> )
  /\ ( FirstCall /\ input = Ref(nFoo, ":", nBar) /\ passes = 1 )
     => ( /\ Len(lastPass.subs) = 1
          /\ lastPass.subs[1].prefix = <<>>
          /\ lastPass.subs[1].name = nFoo \o << ":" >> \o nBar
          /\ lastPass.subs[1].match = input )

\* an opening without a closing brace came back as it was although workspace
\* roots are known
C9_Witness ==
  /\ FirstCall /\ pc = "returned"
  /\ input = Open \o Bare(<< "a", "\n" >>)
  /\ workspaceFolders.defined /\ workspaceFolders.list # <<>>
  /\ ret = input

-----------------------------------------------------------------------------
(* C10 *)

\* number of passes the call has run is the size of the seen-set, and the
\* string the loop was left with is in it
LoopFinished == expanded \in cycleCache /\ passes = Cardinality(cycleCache)

\* C10: a call that ran the loop returns the string the loop was left with,
\* with its first character replaced by the home directory if and only if that
\* character is '~' and every other character as it is; until the loop is left
\* no '~' is replaced, and nothing is scanned after the replacement.
C10_HomeOnceAtPositionZero ==
  /\ ( pc = "returned" /\ inputDefined /\ input # <<>> )
     => /\ LoopFinished
        /\ IF expanded # <<>> /\ expanded[1] = "~"
           THEN ret = homedir \o SubSeq(expanded, 2, Len(expanded))
           ELSE ret = expanded
  /\ ( pc = "while" /\ passes = 0 ) => ret = input
  /\ ( pc = "home" ) => ret = expanded

\* a '~' that expansion put at position zero was replaced, one behind it was not
C10_Witness ==
  /\ FirstCall /\ pc = "returned"
  /\ input = Ref(kEnv, ":", nA) \o << "~" >>
  /\ nA \in DOMAIN processEnv /\ processEnv[nA] = << "~" >>
  /\ ret = homedir \o << "~" >>

\* the input is absent or empty
NoInput == ~inputDefined \/ input = <<>>

\* C11: a call with an absent or an empty input returns the empty string at
\* once, whatever the overlay holds: it never stands in the loop or before the
\* home-directory pass, runs no pass, looks nothing up and throws nothing.
C11_NoInputReturnsEmptyAtOnce ==
  NoInput => /\ pc \in { "entry", "returned" }
             /\ pc = "returned" => ret = <<>>
             /\ passes = 0 /\ ~lastPass.ran /\ ranOn = <<>>
             /\ expanded = <<>> /\ error = ""

\* an absent input was answered with the empty string under an overlay that
\* holds values
C11_Witness ==
  /\ pc = "returned" /\ ret = <<>> /\ ~inputDefined
  /\ additionalEnvironment.given /\ processEnv # <<>>

\* the call was given a string and has left its loop
LoopLeft == pc \in { "home", "returned" } /\ ~NoInput

\* one more pass over the string the loop was left with gives that string
ExitIsFixedPoint == ReplacePass(expanded).out = expanded

\* C12 as stated: whenever the loop is left, the string it is left with is a
\* fixed point of the pass.
C12_ExitIsFixedPoint == LoopLeft => ExitIsFixedPoint

\* C12, amended: whenever the loop is left, the string it is left with is one a
\* pass of this call was run on; it is a fixed point of the pass exactly when
\* it is the string the last pass was run on (that pass changed nothing), and
\* otherwise it is an earlier string of a cycle, which one more pass changes.
C12_ExitIsSeenString ==
  LoopLeft => /\ lastPass.ran
              /\ expanded \in cycleCache
              /\ ExitIsFixedPoint <=> expanded = lastPass.before

\* ${env:A} with A = ${env:B} and B = ${env:A}: the loop was left after two
\* passes with the input back, which a third pass would turn into ${env:B}
C12_Witness ==
  /\ FirstCall /\ pc = "returned"
  /\ input = Ref(kEnv, ":", nA)
  /\ passes = 2
  /\ lastPass.before = Ref(kEnv, ":", nB)
  /\ expanded = input
  /\ ReplacePass(expanded).out = Ref(kEnv, ":", nB)

\* the two spellings of a reference to the environment variable N
EnvRefs(N) == { Ref(kEnv, ":", N), Ref(kEnv, ".", N) }

\* the pattern matches somewhere in s
HasMatch(s) == \E i \in 1..Len(s) : MatchAt(s, i).ok

\* the chain of environment variables that begins at N: its names and their
\* values in order, and whether it is a chain of distinct names of which each
\* value is one reference to the next and the last value holds no reference
RECURSIVE ChainFrom(_, _)
ChainFrom(N, before) ==
  IF N \notin DOMAIN processEnv \/ N \in before
  THEN [ok |-> FALSE, names |-> {}, values |-> <<>>]
  ELSE LET v    == processEnv[N]
           next == { M \in DOMAIN processEnv : v \in EnvRefs(M) }
       IN IF next = {}
          THEN [ok |-> ~HasMatch(v), names |-> { N }, values |-> << v >>]
          ELSE LET c == ChainFrom(CHOOSE M \in next : TRUE, before \cup { N })
               IN [ok |-> c.ok, names |-> c.names \cup { N },
                   values |-> << v >> \o c.values]

\* the chain the input refers to
InputChain ==
  IF \E N \in DOMAIN processEnv : input \in EnvRefs(N)
  THEN ChainFrom(CHOOSE N \in DOMAIN processEnv : input \in EnvRefs(N), {})
  ELSE [ok |-> FALSE, names |-> {}, values |-> <<>>]

\* the input is a reference to the first name of a chain of the ambient
\* environment, none of whose names the overlay holds
ChainCase ==
  /\ ~NoInput
  /\ InputChain.ok
  /\ additionalEnvironment.given
       => InputChain.names \cap DOMAIN additionalEnvironment.vars = {}

\* C13 as stated: the reference to the first name of a chain of n names is
\* answered with the last value of the chain.
C13_ChainReturnsLastValue ==
  ( ChainCase /\ pc = "returned" )
    => ret = InputChain.values[Len(InputChain.values)]

\* C13, amended: for a reference to the first name of a chain of n names, pass
\* k <= n is run on the reference to the k-th name and makes the one
\* substitution that puts the k-th value in, which is scanned in pass k + 1 and
\* not before; pass n + 1 is run on the last value and changes nothing; the
\* loop is left after these n + 1 passes with the last value, and the call
\* returns it with a leading '~' replaced by the home directory.
C13_ChainTakesOnePassPerName ==
  ChainCase =>
    LET c       == InputChain.values
        n       == Len(c)
        strings == << input >> \o c
    IN /\ pc # "threw"
       /\ passes <= n + 1
       /\ ranOn = SubSeq(strings, 1, passes)
       /\ ( pc = "while" /\ passes <= n ) => ret = strings[passes + 1]
       /\ ( passes >= 1 /\ passes <= n )
            => /\ Len(lastPass.subs) = 1
               /\ lastPass.subs[1].resolved
               /\ lastPass.subs[1].out = c[passes]
       /\ passes = n + 1 => lastPass.subs = <<>> /\ lastPass.before = c[n]
       /\ LoopLeft => passes = n + 1 /\ expanded = c[n]
       /\ pc = "returned" => ret = ResolveHome(c[n])

\* ${env:A} with A = ${env:B}, B = ${env.P} and P = w was answered with w after
\* four passes
C13_Witness ==
  /\ FirstCall /\ pc = "returned" /\ ChainCase
  /\ input = Ref(kEnv, ":", nA)
  /\ Len(InputChain.values) = 3
  /\ passes = 4
  /\ ret = << "w" >>

\* C14: a call whose input is the bare reference ${workspaceFolder}, or the
\* reference ${workspaceFolder:} with the empty name, returns its input,
\* whatever the workspace roots are.
C14_OnlyNamedWorkspaceFolderReplaced ==
  ( ~NoInput /\ pc = "returned"
    /\ input \in { Bare(kWorkspace), Ref(kWorkspace, ":", <<>>) } )
    => ret = input

\* the loop of lines 137-199 run from its beginning on r with the seen-set
\* cache, n passes having been run: how it ends, with what, after how many
\* passes ("grows" where the model stops following a string that grows)
RECURSIVE FreshLoop(_, _, _)
FreshLoop(r, cache, n) ==
  IF ~LoopContinues(r, cache) THEN [end |-> "left", out |-> r, passes |-> n]
  ELSE LET p == ReplacePass(r)
       IN IF p.threw # "" THEN [end |-> "threw", out |-> r, passes |-> n + 1]
          ELSE IF Len(p.out) > Len(input) + MaxGrowth
               THEN [end |-> "grows", out |-> r, passes |-> n]
               ELSE FreshLoop(p.out, cache \cup { r }, n + 1)

\* what the call is to give, from its input, the overlay and the providers alone
FreshCall == FreshLoop(input, {}, 0)

\* the call stands where a call on its input with nothing before it stands
CallIsFresh ==
  /\ ( pc = "while" /\ passes = 0 ) => ( ret = input /\ cycleCache = {} )
  /\ ( pc = "returned" /\ NoInput ) => ret = <<>>
  /\ ( pc \in { "returned", "threw" } /\ ~NoInput )
       => LET fresh == FreshCall
          IN /\ passes = fresh.passes
             /\ pc = "returned" => ( fresh.end = "left" /\ ret = ResolveHome(fresh.out) )
             /\ pc = "threw" => fresh.end = "threw"

\* C15: no step of a call changes the overlay or a provider, and every call,
\* the first or a later one, always stands where a call on the same input,
\* overlay and providers with no call before it would stand: the working
\* string starts as the input, the seen-set starts empty, and the result and
\* the number of passes are those of the input alone.
C15_CallsAreIndependent ==
  /\ []CallIsFresh
  /\ [][ providers' = providers ]_vars

\* with A = ${env:B}, B = ${env.P}, P = w a call on ${env:A}, whose loop ran on
\* ${env:B}, was followed by a call on ${env:B}, which returned w after its
\* own three passes
C15_Witness ==
  /\ calls = 2 /\ pc = "returned"
  /\ prior.returned /\ ~prior.again
  /\ prior.input = Ref(kEnv, ":", nA) /\ prior.passes = 4
  /\ input = Ref(kEnv, ":", nB)
  /\ passes = 3
  /\ ret = << "w" >>

\* the callback of promptForMissingTool has run
Handled == prompt.pc \in { "done", "threw", "installing", "exited", "errored" }

\* pip was spawned or the marketplace installation was asked for
InstallationStarted == prompt.pipSpawned + prompt.extensionInstalls > 0

\* the failure to install was logged or shown
FailureReported == prompt.errorLogged + prompt.errorShown > 0

\* C16: an installation is started only if 'Install' was selected and toolType
\* is 'Python' or 'VSExt'; once the callback has run, 'Install' with another
\* toolType has started no installation and has reported a failure, "Don't
\* Show Again" has invoked a supplied action exactly once and started no
\* installation, and any other outcome of the prompt has done neither.
C16_PromptOutcomes ==
  /\ InstallationStarted
       => ( prompt.selected = "Install" /\ prompt.toolType \in { "Python", "VSExt" } )
  /\ ( Handled /\ prompt.selected = "Install"
       /\ prompt.toolType \notin { "Python", "VSExt" } )
       => ( ~InstallationStarted /\ FailureReported )
  /\ ( Handled /\ prompt.selected = "Don't Show Again" /\ prompt.actionGiven )
       => ( prompt.actionCalls = 1 /\ ~InstallationStarted )
  /\ ( Handled /\ prompt.selected \notin { "Install", "Don't Show Again" } )
       => ( prompt.actionCalls = 0 /\ ~InstallationStarted )

\* ${env:${env:A}}
NestedReference == Ref(kEnv, ":", Ref(kEnv, ":", nA))

\* C17: a reference ends at the first '}' after its '${', so no name of a
\* substitution holds a '}' and a reference written inside a name is part of
\* that name; for the input ${env:${env:A}} the one reference of the pass is
\* ${env:${env:A} of kind env with the name ${env:A, which has no value, and
\* the call returns its input after that one pass, whether A is defined or not.
C17_NestedReferenceIsPartOfTheName ==
  /\ \A sub \in LastSubs : ~Occurs(Close, sub.name)
  /\ ( ~NoInput /\ input = NestedReference )
       => /\ pc # "threw"
          /\ lastPass.ran
               => /\ lastPass.before = input
                  /\ Len(lastPass.subs) = 1
                  /\ lastPass.subs[1].match = SubSeq(input, 1, Len(input) - 1)
                  /\ lastPass.subs[1].varType = kEnv
                  /\ lastPass.subs[1].name = Open \o kEnv \o << ":" >> \o nA
                  /\ ~lastPass.subs[1].resolved
          /\ pc = "returned" => ( ret = input /\ passes = 1 )

\* ${env:${env:A}} was returned as it is with A defined
C17_Witness ==
  /\ pc = "returned" /\ input = NestedReference /\ inputDefined
  /\ nA \in DOMAIN processEnv
  /\ lastPass.ran /\ Len(lastPass.subs) = 1
  /\ ret = input

\* the strings a pass of this call has been run on
RanOn == { ranOn[i] : i \in 1..Len(ranOn) }

\* the call stands between its first line and its return
InCall == pc \in { "while", "home", "returned", "threw" } /\ ~NoInput

\* a step out of the loop condition: the loop is left, with nothing changed,
\* exactly when the working string is in the seen-set, and otherwise the
\* string is put into the seen-set and a pass is run on it
LoopConditionStep ==
  pc = "while"
    => IF ret \in cycleCache
       THEN pc' = "home" /\ cycleCache' = cycleCache /\ ranOn' = ranOn /\ ret' = ret
       ELSE /\ pc' \in { "while", "threw" }
            /\ cycleCache' = cycleCache \cup { ret }
            /\ ranOn' = Append(ranOn, ret)
            /\ passes' = passes + 1

\* C18: from the first evaluation of the loop condition on, the seen-set holds
\* exactly the strings a pass of this call was run on, no two passes were run
\* on the same string, and the number of passes is the size of the set; from
\* the first pass on the input is in the set; and the loop is left exactly
\* when the working string is in the set.
C18_SeenSet ==
  /\ []( InCall => /\ cycleCache = RanOn
                   /\ Cardinality(cycleCache) = Len(ranOn)
                   /\ passes = Len(ranOn)
                   /\ passes >= 1 => ( input \in cycleCache /\ ranOn[1] = input )
                   /\ pc \in { "home", "returned" } => expanded \in cycleCache )
  /\ [][ LoopConditionStep ]_vars

\* the loop condition was evaluated with three strings in the seen-set and a
\* fourth as the working string
C18_Witness ==
  /\ pc = "while" /\ ~NoInput
  /\ passes = 3 /\ Cardinality(cycleCache) = 3
  /\ ret \notin cycleCache

====
